---- MODULE Spec2Model ----
(***************************************************************************)
(* Model of package remotelist (src/main.go): a line-delimited list that   *)
(* is downloaded to a local cache file when the cache is stale, loaded     *)
(* into an in-memory record set, and queried under one mutex.              *)
(*                                                                         *)
(* A Go string is modelled as a sequence of Unicode code points.  The      *)
(* byte-wise order of UTF-8 strings used by sort.Strings is the            *)
(* lexicographic order of the code-point sequences.  The runes used are    *)
(*   9 TAB, 10 LF, 32 SPACE, 35 '#', 47 '/', 65 'A', 97 'a', 98 'b',       *)
(*   304 U+0130 (LATIN CAPITAL LETTER I WITH DOT ABOVE).                   *)
(***************************************************************************)
EXTENDS Integers, Sequences, FiniteSets, TLC

(***************************************************************************)
(* Bounds of the model.                                                    *)
(***************************************************************************)
\* the clock runs from 1 to MaxTime
MaxTime == 2
\* number of public calls issued on one instance
MaxCalls == 2
\* number of concurrent callers in SpecConc
NThreads == 2

(***************************************************************************)
(* Library functions on strings (package strings, unicode, sort).          *)
(***************************************************************************)
\* unicode.IsSpace, as used by strings.TrimSpace
IsSpace(c) == c \in {9, 10, 11, 12, 13, 32, 133, 160}

RECURSIVE TrimLeft(_)
TrimLeft(s) ==
    IF s # <<>> /\ IsSpace(Head(s)) THEN TrimLeft(Tail(s)) ELSE s

RECURSIVE TrimRight(_)
TrimRight(s) ==
    IF s # <<>> /\ IsSpace(s[Len(s)]) THEN TrimRight(SubSeq(s, 1, Len(s) - 1)) ELSE s

\* strings.TrimSpace
TrimSpace(s) == TrimRight(TrimLeft(s))

\* unicode.ToLower on the runes of the model: ASCII upper case maps to lower
\* case, U+0130 maps to 'i' (CaseRanges entry {0x0130, 0x0130, d{0, -199, 0}})
ToLowerRune(c) ==
    IF c >= 65 /\ c <= 90 THEN c + 32
    ELSE IF c = 304 THEN 105
    ELSE c

\* strings.ToLower
ToLower(s) == [i \in 1..Len(s) |-> ToLowerRune(s[i])]

\* unicode.SimpleFold on the runes of the model: the next rune of the case
\* folding orbit.  ASCII letters alternate (with 'k' -> U+212A -> 'K' and
\* 's' -> U+017F -> 'S'); U+0130 folds to itself (caseOrbit {0x0130, 0x0130}).
SimpleFold(c) ==
    IF c >= 65 /\ c <= 90 THEN c + 32
    ELSE IF c = 107 THEN 8490
    ELSE IF c = 115 THEN 383
    ELSE IF c >= 97 /\ c <= 122 THEN c - 32
    ELSE IF c = 8490 THEN 75
    ELSE IF c = 383 THEN 83
    ELSE c

\* the loop "for r != sr && r < tr { r = unicode.SimpleFold(r) }" of EqualFold
RECURSIVE FoldUpTo(_, _, _)
FoldUpTo(r, sr, tr) ==
    IF r # sr /\ r < tr THEN FoldUpTo(SimpleFold(r), sr, tr) ELSE r

\* one rune pair of strings.EqualFold
EqualFoldRune(x, y) ==
    LET sr == IF y < x THEN y ELSE x
        tr == IF y < x THEN x ELSE y
    IN  IF tr = sr THEN TRUE
        ELSE IF tr < 128 THEN sr >= 65 /\ sr <= 90 /\ tr = sr + 32
        ELSE FoldUpTo(SimpleFold(sr), sr, tr) = tr

\* strings.EqualFold
EqualFold(s, t) ==
    /\ Len(s) = Len(t)
    /\ \A i \in 1..Len(s) : EqualFoldRune(s[i], t[i])

\* strings.HasPrefix
HasPrefix(s, p) == Len(s) >= Len(p) /\ SubSeq(s, 1, Len(p)) = p

\* strings.Contains
Contains(s, sub) ==
    \E i \in 0..(Len(s) - Len(sub)) : SubSeq(s, i + 1, i + Len(sub)) = sub

\* index of the first LF of s, 0 when there is none
RECURSIVE IndexLF(_, _)
IndexLF(s, i) ==
    IF i > Len(s) THEN 0 ELSE IF s[i] = 10 THEN i ELSE IndexLF(s, i + 1)

\* strings.Split(s, "\n")
RECURSIVE Split(_)
Split(s) ==
    LET i == IndexLF(s, 1)
    IN  IF i = 0 THEN <<s>>
        ELSE <<SubSeq(s, 1, i - 1)>> \o Split(SubSeq(s, i + 1, Len(s)))

\* the order of Go strings: s < t
RECURSIVE StrLess(_, _)
StrLess(s, t) ==
    IF t = <<>> THEN FALSE
    ELSE IF s = <<>> THEN TRUE
    ELSE IF Head(s) # Head(t) THEN Head(s) < Head(t)
    ELSE StrLess(Tail(s), Tail(t))

\* sort.Strings applied to a slice holding each element of S once
RECURSIVE SortStrings(_)
SortStrings(S) ==
    IF S = {} THEN <<>>
    ELSE LET m == CHOOSE x \in S : \A y \in S \ {x} : StrLess(x, y)
         IN  <<m>> \o SortStrings(S \ {m})


(***************************************************************************)
(* Strategies: the defaults of the package and caller-supplied ones.       *)
(***************************************************************************)
\* DefaultSearchFunc: case-insensitive substring search, sorted
DefaultSearchFunc(recs, term) ==
    SortStrings({rec \in recs : Contains(ToLower(rec), ToLower(term))})

\* DefaultDataLineProcessFunc: the line itself; dropped when it is empty or
\* starts with "#" or "//"
DefaultDataLineProcessFunc(line) ==
    [parsed |-> line,
     include |-> ~(HasPrefix(line, <<35>>) \/ HasPrefix(line, <<47, 47>>) \/ Len(line) = 0)]

\* DefaultHasFunc: strings.EqualFold of a record with the lowered term
DefaultHasFunc(recs, term) ==
    \E rec \in recs : EqualFold(rec, ToLower(term))

\* the caller-supplied HasFunc of the README: a plain map lookup
CallerHasFunc(recs, term) == term \in recs

\* all orders of the elements of S (a range over a Go map has no fixed order)
RECURSIVE Orders(_)
Orders(S) ==
    IF S = {} THEN {<<>>}
    ELSE UNION {{<<x>> \o r : r \in Orders(S \ {x})} : x \in S}

\* a caller-supplied SearchFunc: appends the records containing the term
\* while ranging over the map, without lowering and without sorting
CallerSearchFunc(recs, term) ==
    Orders({rec \in recs : Contains(rec, term)})

\* a caller-supplied DataFilterFunc: lowers the whole payload
CallerDataFilterFunc(source) == ToLower(source)

\* a caller-supplied DataLineFunc: lowers the line, drops only empty lines
CallerDataLineFunc(line) ==
    [parsed |-> ToLower(line), include |-> Len(line) # 0]

\* rl.fnHas(rl.records, value)
FnHas(fn, recs, term) ==
    IF fn = "default" THEN DefaultHasFunc(recs, term) ELSE CallerHasFunc(recs, term)

\* the values rl.fnSearch(rl.records, value) can return
FnSearch(fn, recs, term) ==
    IF fn = "default" THEN {DefaultSearchFunc(recs, term)} ELSE CallerSearchFunc(recs, term)

\* rl.fnDataLine(line)
FnDataLine(fn, line) ==
    IF fn = "default" THEN DefaultDataLineProcessFunc(line) ELSE CallerDataLineFunc(line)

\* mutant of FilteredData: the payload filter is not applied
FilteredDataRaw(fn, data) == data

\* the bytes download() hands to os.WriteFile
FilteredData(fn, data) ==
    IF fn = "nil" THEN data ELSE CallerDataFilterFunc(data)

(***************************************************************************)
(* Input sets.                                                             *)
(***************************************************************************)
\* contents of the local cache file before construction
Contents ==
    { <<98, 10, 97, 10>>,                            \* "b\na\n"
      <<35, 97, 10, 10, 97, 10, 47, 47, 10, 65>>,    \* "#a\n\na\n//\nA"
      <<32, 97, 10, 32, 10, 32, 35>> }               \* " a\n \n #"

\* bodies the remote source can serve
Bodies ==
    { <<65, 10, 98>>,                                \* "A\nb"
      <<35, 10, 32, 97, 9>> }                        \* "#\n a\t"

\* arguments of Has, Search and Add
Values ==
    { <<97>>,                                        \* "a"
      <<32, 97>>,                                    \* " a"
      <<>>,                                          \* ""
      <<304>> }                                      \* U+0130

\* permission bits of an existing cache file: 0600, 0664
Perms == {384, 436}

\* values of the maxAge argument of New, in clock ticks
MaxAges == {1, 2}

\* process umask: 022, 077
Umasks == {18, 63}

\* status codes the remote source can answer with: 200, 204, 404
Statuses == {200, 204, 404}

\* http.StatusOK
StatusOK == 200

\* os.FileMode(0644)
DefaultPerm == 420

Callers == 1..NThreads

\* no file at rl.fileLocal
NoFile == [exists |-> FALSE, mod |-> 0, perm |-> 0, data |-> <<>>]

\* download() has no live locals
NoLocals == [fileExists |-> FALSE, perm |-> 0, status |-> 0, data |-> <<>>]

\* no call in progress: the zero values of the return types of the methods
NoReturn == [has |-> FALSE, list |-> <<>>]

(***************************************************************************)
(* State.                                                                  *)
(***************************************************************************)
VARIABLES
    now,          \* wall clock
    umask,        \* umask of the process
    file,         \* the local cache file: exists, mod time, permission bits, data
    maxAge,       \* rl.maxAge
    fnHas,        \* rl.fnHas: "nil" (argument of New), "default", "custom"
    fnSearch,     \* rl.fnSearch
    fnDataFiler,  \* rl.fnDataFiler: "nil" or "custom"
    fnDataLine,   \* rl.fnDataLine
    records,      \* rl.records, the keys of the map
    mu,           \* rl.mu: 0 when unlocked, else the caller holding it
    pc,           \* position of New
    dl,           \* locals of download()
    todo,         \* lines init() has still to process
    ret,          \* what New returned: inst (non-nil instance), err
    fetches,      \* number of http.Get calls issued
    writes,       \* number of os.WriteFile calls issued
    reads,        \* number of os.ReadFile calls issued
    file0,        \* the local cache file when New was called
    statAt,       \* the clock when download() called os.Stat, 0 before
    net,          \* how the GET went: st is "none", "connerr", "answered", "readerr"
                  \* or "body", status is the status code answered, body the
                  \* body io.ReadAll returned
    tpc,          \* position of each caller in its public method
    top,          \* the method each caller is in
    targ,         \* its argument
    tret,         \* its return value: the bool of Has, the slice of Search and List
    calls,        \* number of public calls issued
    added         \* arguments of the Add calls that have stored their value

vars == <<now, umask, file, maxAge, fnHas, fnSearch, fnDataFiler, fnDataLine,
          records, mu, pc, dl, todo, ret, fetches, writes, reads, file0, statAt, net,
          tpc, top, targ, tret, calls, added>>

envVars == <<umask, maxAge, file0>>
histVars == <<statAt, net>>
fnVars == <<fnHas, fnSearch, fnDataFiler, fnDataLine>>
callVars == <<tpc, top, targ, tret, calls, added>>


(***************************************************************************)
(* File system and remote source.                                          *)
(***************************************************************************)
\* bit i (0 is the lowest) of the permission bits p
Bit(p, i) == (p \div (2 ^ i)) % 2

\* perm &^ mask on the nine permission bits
RECURSIVE AndNot(_, _, _)
AndNot(p, m, i) ==
    IF i > 8 THEN 0
    ELSE (IF Bit(p, i) = 1 /\ Bit(m, i) = 0 THEN 2 ^ i ELSE 0) + AndNot(p, m, i + 1)

\* os.WriteFile(name, data, perm) when it succeeds: an existing file is
\* truncated and keeps its mode, a new file gets perm less the umask
WrittenFile(f, data, perm, mask, t) ==
    [exists |-> TRUE,
     mod |-> t,
     perm |-> IF f.exists THEN f.perm ELSE AndNot(perm, mask, 0),
     data |-> data]

\* mutant of Permissions: a new file is asked for with mode 0600
PermissionsPrivate(fileExists, infoPerm) ==
    IF fileExists THEN infoPerm ELSE 384

\* "permissions" of download()
Permissions(fileExists, infoPerm) ==
    IF fileExists THEN infoPerm ELSE DefaultPerm

\* mutant of NeedsDownload: a file exactly maxAge old still counts as fresh
NeedsDownloadLate(fileExists, modTime, t, age) ==
    ~(fileExists /\ t - modTime <= age)

\* needsDownload of download(): false only for an existing file younger
\* than maxAge
NeedsDownload(fileExists, modTime, t, age) ==
    ~(fileExists /\ t - modTime < age)

\* mutant of AddValue: the value is stored untrimmed
AddValueRaw(recs, value) == recs \cup {value}

\* mutant of AddValue: the map is replaced by one holding only the new value
AddValueOnly(recs, value) == {TrimSpace(value)}

\* the body of Add: value = strings.TrimSpace(value); rl.records[value] = struct{}{}
AddValue(recs, value) == recs \cup {TrimSpace(value)}

\* mutant of InitStep: the include flag of the processor is not looked at
InitStepAll(fn, recs, line) ==
    AddValue(recs, FnDataLine(fn, line).parsed)

\* one pass of the loop of init(): the records after the line was processed
InitStep(fn, recs, line) ==
    LET r == FnDataLine(fn, line)
    IN  IF fn # "nil" /\ r.include THEN AddValue(recs, r.parsed) ELSE recs

\* the loop of init() over the lines
RECURSIVE InitLoop(_, _, _)
InitLoop(fn, recs, lines) ==
    IF lines = <<>> THEN recs
    ELSE InitLoop(fn, InitStep(fn, recs, Head(lines)), Tail(lines))

(***************************************************************************)
(* Construction: New, download, init.                                      *)
(***************************************************************************)
Init ==
    /\ now = 1
    /\ umask \in Umasks
    /\ file \in {NoFile} \cup
                [exists : {TRUE}, mod : {0}, perm : Perms, data : Contents]
    /\ maxAge \in MaxAges
    /\ fnHas \in {"nil", "custom"}
    /\ fnSearch \in {"nil", "custom"}
    /\ fnDataFiler \in {"nil", "custom"}
    /\ fnDataLine \in {"nil", "custom"}
    /\ records = {}
    /\ mu = 0
    /\ pc = "new"
    /\ dl = NoLocals
    /\ todo = <<>>
    /\ ret = [inst |-> FALSE, err |-> "none"]
    /\ fetches = 0
    /\ writes = 0
    /\ reads = 0
    /\ file0 = file
    /\ statAt = 0
    /\ net = [st |-> "none", status |-> 0, body |-> <<>>]
    /\ tpc = [t \in Callers |-> "idle"]
    /\ top = [t \in Callers |-> "none"]
    /\ targ = [t \in Callers |-> <<>>]
    /\ tret = [t \in Callers |-> NoReturn]
    /\ calls = 0
    /\ added = {}

\* time passes
Tick ==
    /\ now < MaxTime
    /\ now' = now + 1
    /\ UNCHANGED <<umask, file, maxAge, fnHas, fnSearch, fnDataFiler, fnDataLine,
                   records, mu, pc, dl, todo, ret, fetches, writes, reads, file0, statAt, net,
                   tpc, top, targ, tret, calls, added>>

\* New, lines 212-243: build the struct, substitute the defaults
NewStruct ==
    /\ pc = "new"
    /\ fnHas' = IF fnHas = "nil" THEN "default" ELSE fnHas
    /\ fnSearch' = IF fnSearch = "nil" THEN "default" ELSE fnSearch
    /\ fnDataLine' = IF fnDataLine = "nil" THEN "default" ELSE fnDataLine
    /\ pc' = "stat"
    /\ UNCHANGED <<now, file, fnDataFiler, records, mu, dl, todo, ret, fetches, writes>>
    /\ UNCHANGED histVars
    /\ UNCHANGED envVars
    /\ UNCHANGED reads
    /\ UNCHANGED callVars

\* download, lines 138-146: os.Stat and the staleness gate; a fresh file makes
\* download return nil
Stat ==
    /\ pc = "stat"
    /\ IF NeedsDownload(file.exists, file.mod, now, maxAge)
       THEN /\ dl' = [dl EXCEPT !.fileExists = file.exists, !.perm = file.perm]
            /\ pc' = "get"
       ELSE /\ dl' = NoLocals
            /\ pc' = "readfile"
    /\ UNCHANGED <<now, file, records, mu, todo, ret, fetches, writes>>
    /\ statAt' = now
    /\ net' = net
    /\ UNCHANGED envVars
    /\ UNCHANGED reads
    /\ UNCHANGED fnVars
    /\ UNCHANGED callVars

\* mutant of DownloadFails: New does not look at the error of download()
DownloadFailsIgnored(e) ==
    /\ dl' = NoLocals
    /\ pc' = "readfile"
    /\ ret' = ret

\* mutant of DownloadFails: download() tries the GET again after an error
DownloadFailsRetry(e) ==
    /\ dl' = dl
    /\ pc' = "get"
    /\ ret' = ret

\* download returns an error and New returns (nil, err)
DownloadFails(e) ==
    /\ dl' = NoLocals
    /\ pc' = "failed"
    /\ ret' = [inst |-> FALSE, err |-> e]

\* download, lines 147-151: http.Get; the source refuses the connection or
\* answers with some status
HttpGet ==
    /\ pc = "get"
    /\ fetches' = fetches + 1
    /\ \/ \E s \in Statuses :
            /\ dl' = [dl EXCEPT !.status = s]
            /\ pc' = "status"
            /\ ret' = ret
            /\ net' = [st |-> "answered", status |-> s, body |-> <<>>]
       \/ /\ DownloadFails("get")
          /\ net' = [net EXCEPT !.st = "connerr"]
    /\ statAt' = statAt
    /\ UNCHANGED <<now, file, records, mu, todo, writes>>
    /\ UNCHANGED envVars
    /\ UNCHANGED reads
    /\ UNCHANGED fnVars
    /\ UNCHANGED callVars

\* mutant of CheckStatus: the status code is not looked at
CheckStatusIgnored ==
    /\ pc = "status"
    /\ pc' = "readall"
    /\ UNCHANGED <<dl, ret>>
    /\ UNCHANGED <<now, file, records, mu, todo, fetches, writes>>
    /\ UNCHANGED histVars
    /\ UNCHANGED envVars
    /\ UNCHANGED reads
    /\ UNCHANGED fnVars
    /\ UNCHANGED callVars

\* download, lines 153-155: the status code
CheckStatus ==
    /\ pc = "status"
    /\ IF dl.status # StatusOK
       THEN DownloadFails("status")
       ELSE /\ pc' = "readall"
            /\ UNCHANGED <<dl, ret>>
    /\ UNCHANGED <<now, file, records, mu, todo, fetches, writes>>
    /\ UNCHANGED histVars
    /\ UNCHANGED envVars
    /\ UNCHANGED reads
    /\ UNCHANGED fnVars
    /\ UNCHANGED callVars

\* download, lines 158-161: io.ReadAll; the body arrives whole or the read fails
ReadAll ==
    /\ pc = "readall"
    /\ \/ \E b \in Bodies :
            /\ dl' = [dl EXCEPT !.data = b]
            /\ pc' = "write"
            /\ ret' = ret
            /\ net' = [net EXCEPT !.st = "body", !.body = b]
       \/ /\ DownloadFails("read")
          /\ net' = [net EXCEPT !.st = "readerr"]
    /\ UNCHANGED <<now, file, records, mu, todo, fetches, writes>>
    /\ statAt' = statAt
    /\ UNCHANGED envVars
    /\ UNCHANGED reads
    /\ UNCHANGED fnVars
    /\ UNCHANGED callVars

\* download, lines 164-179: os.WriteFile.  It can fail before it opens the
\* file (the file is as it was) or after it truncated it.
WriteFile ==
    /\ pc = "write"
    /\ writes' = writes + 1
    /\ LET perm == Permissions(dl.fileExists, dl.perm)
           out == FilteredData(fnDataFiler, dl.data)
       IN  \E outcome \in {"ok", "open", "short"} :
             \/ /\ outcome = "ok"
                /\ file' = WrittenFile(file, out, perm, umask, now)
                /\ dl' = NoLocals
                /\ pc' = "readfile"
                /\ ret' = ret
             \/ /\ outcome = "open"
                /\ file' = file
                /\ DownloadFails("write")
             \/ /\ outcome = "short"
                /\ file' = WrittenFile(file, <<>>, perm, umask, now)
                /\ DownloadFails("write")
    /\ UNCHANGED <<now, records, mu, todo, fetches>>
    /\ UNCHANGED histVars
    /\ UNCHANGED envVars
    /\ UNCHANGED reads
    /\ UNCHANGED fnVars
    /\ UNCHANGED callVars

\* init, lines 185-191: os.ReadFile and strings.Split; on a read error New
\* returns (rl, err)
ReadFile ==
    /\ pc = "readfile"
    /\ \E ok \in BOOLEAN :
         IF ok /\ file.exists
         THEN /\ todo' = Split(file.data)
              /\ pc' = "lines"
              /\ ret' = ret
         ELSE /\ todo' = todo
              /\ pc' = "failed"
              /\ ret' = [inst |-> TRUE, err |-> "load"]
    /\ UNCHANGED <<now, file, records, mu, dl, fetches, writes>>
    /\ UNCHANGED histVars
    /\ UNCHANGED envVars
    /\ reads' = reads + 1
    /\ UNCHANGED fnVars
    /\ UNCHANGED callVars

\* init, lines 191-197: one line of the loop; rl.Add locks, stores and unlocks
InitLine ==
    /\ pc = "lines"
    /\ todo # <<>>
    /\ mu = 0
    /\ records' = InitStep(fnDataLine, records, Head(todo))
    /\ todo' = Tail(todo)
    /\ UNCHANGED <<now, file, mu, pc, dl, ret, fetches, writes>>
    /\ UNCHANGED histVars
    /\ UNCHANGED envVars
    /\ UNCHANGED reads
    /\ UNCHANGED fnVars
    /\ UNCHANGED callVars

\* init returns nil and New returns (rl, nil), lines 199 and 250
InitReturn ==
    /\ pc = "lines"
    /\ todo = <<>>
    /\ pc' = "ready"
    /\ ret' = [inst |-> TRUE, err |-> "nil"]
    /\ UNCHANGED <<now, file, records, mu, dl, todo, fetches, writes>>
    /\ UNCHANGED histVars
    /\ UNCHANGED envVars
    /\ UNCHANGED reads
    /\ UNCHANGED fnVars
    /\ UNCHANGED callVars


(***************************************************************************)
(* The public methods, one caller t at a time through the mutex.           *)
(***************************************************************************)
ctorVars == <<now, file, pc, dl, todo, ret, fetches, writes, statAt, net>>

\* a caller invokes a public method on the instance New returned without error
Call(t, op, value) ==
    /\ pc = "ready"
    /\ tpc[t] = "idle"
    /\ calls < MaxCalls
    /\ calls' = calls + 1
    /\ tpc' = [tpc EXCEPT ![t] = "lock"]
    /\ top' = [top EXCEPT ![t] = op]
    /\ targ' = [targ EXCEPT ![t] = value]
    /\ UNCHANGED <<tret, added, records, mu>>
    /\ UNCHANGED ctorVars
    /\ UNCHANGED envVars
    /\ UNCHANGED reads
    /\ UNCHANGED fnVars

CallHas(t) == \E v \in Values : Call(t, "Has", v)
CallSearch(t) == \E v \in Values : Call(t, "Search", v)
CallAdd(t) == \E v \in Values : Call(t, "Add", v)
CallList(t) == Call(t, "List", <<>>)

\* mutant of MutexFree: Lock never waits
MutexAlwaysFree(t) == TRUE

\* sync.Mutex.Lock: enabled when the mutex is free
MutexFree(t) == mu = 0

\* rl.mu.Lock()
Lock(t) ==
    /\ tpc[t] = "lock"
    /\ MutexFree(t)
    /\ mu' = t
    /\ tpc' = [tpc EXCEPT ![t] = "body"]
    /\ UNCHANGED <<top, targ, tret, calls, added, records>>
    /\ UNCHANGED ctorVars
    /\ UNCHANGED envVars
    /\ UNCHANGED reads
    /\ UNCHANGED fnVars

\* Has, line 105
HasBody(t) ==
    /\ tpc[t] = "body"
    /\ top[t] = "Has"
    /\ tpc' = [tpc EXCEPT ![t] = "unlock"]
    /\ tret' = [tret EXCEPT ![t].has = FnHas(fnHas, records, targ[t])]
    /\ UNCHANGED <<top, targ, calls, added, records, mu>>
    /\ UNCHANGED ctorVars
    /\ UNCHANGED envVars
    /\ UNCHANGED reads
    /\ UNCHANGED fnVars

\* Search, line 112
SearchBody(t) ==
    /\ tpc[t] = "body"
    /\ top[t] = "Search"
    /\ \E r \in FnSearch(fnSearch, records, targ[t]) :
         tret' = [tret EXCEPT ![t].list = r]
    /\ tpc' = [tpc EXCEPT ![t] = "unlock"]
    /\ UNCHANGED <<top, targ, calls, added, records, mu>>
    /\ UNCHANGED ctorVars
    /\ UNCHANGED envVars
    /\ UNCHANGED reads
    /\ UNCHANGED fnVars

\* mutant of AddBody: the stored value is also appended to the cache file
AddBodyPersist(t) ==
    /\ tpc[t] = "body"
    /\ top[t] = "Add"
    /\ records' = AddValue(records, targ[t])
    /\ added' = added \cup {targ[t]}
    /\ tpc' = [tpc EXCEPT ![t] = "unlock"]
    /\ file' = [file EXCEPT !.data = file.data \o <<10>> \o TrimSpace(targ[t]), !.mod = now]
    /\ writes' = writes + 1
    /\ UNCHANGED <<top, targ, tret, calls, mu>>
    /\ UNCHANGED <<now, pc, dl, todo, ret, fetches, statAt, net>>
    /\ UNCHANGED envVars
    /\ UNCHANGED reads
    /\ UNCHANGED fnVars

\* Add, lines 119-120
AddBody(t) ==
    /\ tpc[t] = "body"
    /\ top[t] = "Add"
    /\ records' = AddValue(records, targ[t])
    /\ added' = added \cup {targ[t]}
    /\ tpc' = [tpc EXCEPT ![t] = "unlock"]
    /\ UNCHANGED <<top, targ, tret, calls, mu>>
    /\ UNCHANGED ctorVars
    /\ UNCHANGED envVars
    /\ UNCHANGED reads
    /\ UNCHANGED fnVars

\* mutant of List: the slice is returned sorted the wrong way round
ListDescending(recs) ==
    LET srt == SortStrings(recs)
    IN  [i \in 1..Len(srt) |-> srt[Len(srt) + 1 - i]]

\* List, lines 127-132
List(recs) == SortStrings(recs)

ListBody(t) ==
    /\ tpc[t] = "body"
    /\ top[t] = "List"
    /\ tret' = [tret EXCEPT ![t].list = List(records)]
    /\ tpc' = [tpc EXCEPT ![t] = "unlock"]
    /\ UNCHANGED <<top, targ, calls, added, records, mu>>
    /\ UNCHANGED ctorVars
    /\ UNCHANGED envVars
    /\ UNCHANGED reads
    /\ UNCHANGED fnVars

\* mutant of Unlock: the method returns without releasing the mutex
UnlockKept(t) ==
    /\ tpc[t] = "unlock"
    /\ mu' = mu
    /\ tpc' = [tpc EXCEPT ![t] = "idle"]
    /\ top' = [top EXCEPT ![t] = "none"]
    /\ targ' = [targ EXCEPT ![t] = <<>>]
    /\ tret' = [tret EXCEPT ![t] = NoReturn]
    /\ UNCHANGED <<calls, added, records>>
    /\ UNCHANGED ctorVars
    /\ UNCHANGED envVars
    /\ UNCHANGED reads
    /\ UNCHANGED fnVars

\* the deferred rl.mu.Unlock() and the return
Unlock(t) ==
    /\ tpc[t] = "unlock"
    /\ mu' = 0
    /\ tpc' = [tpc EXCEPT ![t] = "idle"]
    /\ top' = [top EXCEPT ![t] = "none"]
    /\ targ' = [targ EXCEPT ![t] = <<>>]
    /\ tret' = [tret EXCEPT ![t] = NoReturn]
    /\ UNCHANGED <<calls, added, records>>
    /\ UNCHANGED ctorVars
    /\ UNCHANGED envVars
    /\ UNCHANGED reads
    /\ UNCHANGED fnVars

(***************************************************************************)
(* Spec: construction from every environment, then one caller.             *)
(***************************************************************************)
Next ==
    \/ Tick
    \/ NewStruct
    \/ Stat
    \/ HttpGet
    \/ CheckStatus
    \/ ReadAll
    \/ WriteFile
    \/ ReadFile
    \/ InitLine
    \/ InitReturn
    \/ CallHas(1)
    \/ CallSearch(1)
    \/ CallAdd(1)
    \/ CallList(1)
    \/ Lock(1)
    \/ HasBody(1)
    \/ SearchBody(1)
    \/ AddBody(1)
    \/ ListBody(1)
    \/ Unlock(1)

Spec == Init /\ [][Next]_vars


(***************************************************************************)
(* SpecConc: a Ready instance, built from a fresh cache file with no       *)
(* fetch, shared by NThreads concurrent callers.                           *)
(***************************************************************************)
InitConc ==
    /\ now = 1
    /\ umask = 18
    /\ file \in [exists : {TRUE}, mod : {1}, perm : {DefaultPerm}, data : Contents]
    /\ maxAge = 1
    /\ fnHas \in {"default", "custom"}
    /\ fnSearch \in {"default", "custom"}
    /\ fnDataFiler = "nil"
    /\ fnDataLine = "default"
    /\ records = InitLoop(fnDataLine, {}, Split(file.data))
    /\ mu = 0
    /\ pc = "ready"
    /\ dl = NoLocals
    /\ todo = <<>>
    /\ ret = [inst |-> TRUE, err |-> "nil"]
    /\ fetches = 0
    /\ writes = 0
    /\ reads = 1
    /\ file0 = file
    /\ statAt = 1
    /\ net = [st |-> "none", status |-> 0, body |-> <<>>]
    /\ tpc = [t \in Callers |-> "idle"]
    /\ top = [t \in Callers |-> "none"]
    /\ targ = [t \in Callers |-> <<>>]
    /\ tret = [t \in Callers |-> NoReturn]
    /\ calls = 0
    /\ added = {}

NextConc ==
    \/ Tick
    \/ \E t \in Callers :
         \/ CallHas(t)
         \/ CallSearch(t)
         \/ CallAdd(t)
         \/ CallList(t)
         \/ Lock(t)
         \/ HasBody(t)
         \/ SearchBody(t)
         \/ AddBody(t)
         \/ ListBody(t)
         \/ Unlock(t)

SpecConc == InitConc /\ [][NextConc]_vars


(***************************************************************************)
(* SpecLive: New with the default strategies of NewSimple, then NThreads   *)
(* concurrent callers, under fair scheduling of the steps that do not wait *)
(* for the network.  The clock stands still: download() reads it once, in  *)
(* Stat, and no method reads it.                                           *)
(***************************************************************************)
InitLive ==
    /\ Init
    /\ umask = 18
    /\ maxAge = 1
    /\ file # NoFile => (file.perm = 436 /\ file.data = <<98, 10, 97, 10>>)
    /\ fnHas = "nil"
    /\ fnSearch = "nil"
    /\ fnDataFiler = "nil"
    /\ fnDataLine = "nil"

NextLive ==
    \/ NewStruct
    \/ Stat
    \/ HttpGet
    \/ CheckStatus
    \/ ReadAll
    \/ WriteFile
    \/ ReadFile
    \/ InitLine
    \/ InitReturn
    \/ \E t \in Callers :
         \/ CallHas(t)
         \/ CallSearch(t)
         \/ CallAdd(t)
         \/ CallList(t)
         \/ Lock(t)
         \/ HasBody(t)
         \/ SearchBody(t)
         \/ AddBody(t)
         \/ ListBody(t)
         \/ Unlock(t)

\* a goroutine that can run does run: the loop of init and the bodies of the
\* methods make no blocking call; sync.Mutex hands the mutex to a waiter
\* that has been waiting (starvation mode), so Lock is strongly fair.  No
\* fairness for the callers' decision to call, the clock or http.Get.
FairLive ==
    /\ WF_<<pc, todo>>(InitLine \/ InitReturn)
    /\ \A t \in Callers :
          /\ SF_tpc(Lock(t))
          /\ WF_tpc(HasBody(t) \/ SearchBody(t) \/ AddBody(t) \/ ListBody(t) \/ Unlock(t))

SpecLive == InitLive /\ [][NextLive]_vars /\ FairLive


(***************************************************************************)
(* Properties.                                                             *)
(***************************************************************************)
\* the positions of New inside the fetch of download()
Fetching == {"get", "status", "readall", "write"}

\* the errors download() returns
FetchErrors == {"get", "status", "read", "write"}

C2_ErrorMeansNoInstance ==
    ret.err \notin {"none", "nil"} => ~ret.inst

\* the GET failed: no connection, a status that is no success (2xx), or a
\* body that could not be read
FetchFailed ==
    \/ net.st = "connerr"
    \/ net.st = "answered" /\ net.status \notin 200..299
    \/ net.st = "readerr"

\* C3: when the fetch fails by connection error, non-success status or body
\* read failure, download() returns an error and the local file is what it
\* was before the call; the file is written only after the body was read.
C3_FetchFailureLeavesCache ==
    /\ FetchFailed =>
          /\ file = file0
          /\ writes = 0
          /\ pc \in {"status", "failed"}
          /\ pc = "failed" => ret.err \in {"get", "status", "read"}
    /\ (writes > 0 \/ file # file0) => net.st = "body"

\* C3 witness: a stale, existing cache file survives a 404
C3_Witness ==
    /\ pc = "failed"
    /\ ret.err = "status"
    /\ net.status = 404
    /\ file0.exists
    /\ file0.data # <<>>
    /\ file = file0


\* caller t is inside the critical section of its method
InCritical(t) == tpc[t] \in {"body", "unlock"}

\* C4: at most one caller is inside the critical section of Has, Search,
\* Add or List at any instant, and it is the one holding the mutex; so no
\* method reads the record map while an Add is storing into it.
C4_MutualExclusion ==
    \A t \in Callers :
        InCritical(t) =>
            /\ mu = t
            /\ \A u \in Callers \ {t} : ~InCritical(u)

\* C4 witness: an Add holds the mutex while a reader waits for it
C4_Witness ==
    \E t, u \in Callers :
        /\ t # u
        /\ tpc[t] = "body"
        /\ top[t] = "Add"
        /\ tpc[u] = "lock"
        /\ top[u] \in {"Has", "Search", "List"}

\* number of times x occurs in the sequence s
Count(s, x) == Cardinality({i \in 1..Len(s) : s[i] = x})

\* C5: an Add(x) that follows a completed Add(y) with TrimSpace(y) =
\* TrimSpace(x) leaves the record set as it was; List() has the same length
\* before and after it and holds TrimSpace(x) exactly once.
C5_AddIdempotent ==
    [][\A t \in Callers :
          ( /\ tpc[t] = "body"
            /\ top[t] = "Add"
            /\ tpc'[t] = "unlock"
            /\ \E y \in added : TrimSpace(y) = TrimSpace(targ[t]) )
          => /\ records' = records
             /\ Len(List(records')) = Len(List(records))
             /\ Count(List(records'), TrimSpace(targ[t])) = 1]_vars

\* C5 witness: the second Add has stored a value that differs from the first
\* only in surrounding whitespace
C5_Witness ==
    \E t \in Callers :
        /\ tpc[t] = "unlock"
        /\ top[t] = "Add"
        /\ \E y \in added \ {targ[t]} : TrimSpace(y) = TrimSpace(targ[t])

\* the sequence s is in ascending order
Ascending(s) ==
    \A i, j \in 1..Len(s) : i < j => ~StrLess(s[j], s[i])

\* C6 as claimed: whatever the search strategy, what List() and Search(term)
\* return is in ascending order.
C6_AlwaysSorted ==
    \A t \in Callers :
        (tpc[t] = "unlock" /\ top[t] \in {"Search", "List"}) => Ascending(tret[t].list)

\* C6: what List() returns, and what Search(term) returns with the default
\* search strategy, is in ascending order.
C6_SortedOutput ==
    \A t \in Callers :
        ( /\ tpc[t] = "unlock"
          /\ \/ top[t] = "List"
             \/ top[t] = "Search" /\ fnSearch = "default" )
        => Ascending(tret[t].list)

\* C6 witness: List() returns "a" before "b" for a file that lists "b" first
C6_Witness ==
    \E t \in Callers :
        /\ tpc[t] = "unlock"
        /\ top[t] = "List"
        /\ file.data = <<98, 10, 97, 10>>
        /\ tret[t].list = << <<97>>, <<98>> >>

\* s and t are equal but for the case of their letters
SameIgnoringCase(s, t) == s = t \/ ToLower(s) = ToLower(t)

\* C7: with the default strategies Has(term) is true exactly when some record
\* equals term ignoring case, and Search(term) returns exactly the records
\* that contain term ignoring case, each once.
C7_DefaultMatchers ==
    \A t \in Callers :
        /\ (tpc[t] = "unlock" /\ top[t] = "Has" /\ fnHas = "default")
              => (tret[t].has <=> \E rec \in records : SameIgnoringCase(rec, targ[t]))
        /\ (tpc[t] = "unlock" /\ top[t] = "Search" /\ fnSearch = "default")
              => /\ {tret[t].list[i] : i \in 1..Len(tret[t].list)} =
                      {rec \in records : Contains(ToLower(rec), ToLower(targ[t]))}
                 /\ Len(tret[t].list) = Cardinality({tret[t].list[i] : i \in 1..Len(tret[t].list)})


\* the lines of the cache file as init() read it
FileLines == {Split(file.data)[i] : i \in 1..Len(Split(file.data))}

\* the line is neither empty nor a "#" or "//" comment
Kept(line) ==
    /\ line # <<>>
    /\ line[1] # 35
    /\ ~(Len(line) >= 2 /\ line[1] = 47 /\ line[2] = 47)

\* New has returned an instance without error and no Add has stored yet
Loaded == pc = "ready" /\ added = {}

\* C8 as claimed: after a successful construction with the default per-line
\* processor the record set is the set of the file's lines that are
\* non-empty and do not begin with "#" or "//".
C8_RecordsAreKeptLines ==
    (Loaded /\ fnDataLine = "default") => records = {l \in FileLines : Kept(l)}

\* C8: after a successful construction the record set is the set of
\* TrimSpace(parsed) over the file's lines the per-line processor included;
\* with the default processor that is the set of the trimmed forms of the
\* lines that are non-empty and do not begin with "#" or "//".
C8_LoadResult ==
    Loaded =>
        /\ records = {TrimSpace(FnDataLine(fnDataLine, l).parsed) :
                          l \in {k \in FileLines : FnDataLine(fnDataLine, k).include}}
        /\ fnDataLine = "default" =>
               records = {TrimSpace(l) : l \in {k \in FileLines : Kept(k)}}

\* C8 witness: the default processor loaded "#a", "", "a", "//", "A"
C8_Witness ==
    /\ Loaded
    /\ fnDataLine = "default"
    /\ file.data = <<35, 97, 10, 10, 97, 10, 47, 47, 10, 65>>
    /\ records = {<<97>>, <<65>>}

\* C9 as claimed: every record is a string the configured per-line processor
\* accepts; with the default processor no record is empty or begins with "#"
\* or "//".
C9_RecordsAccepted ==
    fnDataLine # "nil" =>
        /\ \A rec \in records : FnDataLine(fnDataLine, rec).include
        /\ fnDataLine = "default" => \A rec \in records : Kept(rec)

\* C9: every record is the trimmed form of a string the per-line processor
\* returned as included during the load, or of a value passed to Add.
C9_RecordOrigins ==
    records \subseteq
        {TrimSpace(FnDataLine(fnDataLine, l).parsed) :
             l \in {k \in FileLines : FnDataLine(fnDataLine, k).include}}
        \cup {TrimSpace(v) : v \in added}

\* C9 witness: the default processor accepted the line " #" and Add("")
\* ran, so "#" and "" are records
C9_Witness ==
    /\ fnDataLine = "default"
    /\ <<35>> \in records
    /\ <<>> \in added
    /\ <<>> \in records

\* C10 as claimed: after download() wrote the file, its permission bits are
\* those it had before when it existed, and 0644 when it did not.
C10_PermOrDefault ==
    (writes > 0 /\ file.exists) =>
        file.perm = IF file0.exists THEN file0.perm ELSE 420

\* C10: after download() wrote the file, its permission bits are those it
\* had before when it existed; when it did not, they are the bits of 0644
\* that the umask of the process does not clear.
C10_PermPreserved ==
    (writes > 0 /\ file.exists) =>
        IF file0.exists
        THEN file.perm = file0.perm
        ELSE \A i \in 0..8 :
                Bit(file.perm, i) = 1 <=> (Bit(420, i) = 1 /\ Bit(umask, i) = 0)

\* C10 witness: a stale file of mode 0600 was overwritten with a new body
C10_Witness ==
    /\ pc = "ready"
    /\ writes = 1
    /\ file0.exists
    /\ file0.perm = 384
    /\ file.data # file0.data
    /\ file.perm = 384


\* C11: once New has returned the instance, no step of Has, Search, Add or
\* List (and no passing of time) reads or writes the local cache file or
\* issues a fetch: the file's content, modification time and permission
\* bits stay as they are, also when the file is older than maxAge.
C11_NoIOWhenReady ==
    [][pc = "ready" =>
          /\ file' = file
          /\ fetches' = fetches
          /\ writes' = writes
          /\ reads' = reads
          /\ pc' = "ready"]_vars

\* C11 witness: the cache has become stale and an Add has stored a value
\* that is not in the file, which is as New left it
C11_Witness ==
    /\ pc = "ready"
    /\ now - file.mod >= maxAge
    /\ \E t \in Callers : tpc[t] = "unlock" /\ top[t] = "Add"
    /\ <<304>> \in records
    /\ file = file0
    /\ writes = 0


\* download() returned nil: the file was fresh and nothing was fetched, or
\* the body was read and written
DownloadReturnedNil ==
    /\ ret.err \notin FetchErrors
    /\ \/ file0.exists /\ statAt # 0 /\ statAt - file0.mod < maxAge /\ fetches = 0
       \/ net.st = "body" /\ writes = 1

\* C12: init() runs at most once, only after download() returned nil, and
\* has finished before New hands the instance to a caller; when download()
\* returns an error init() never runs and the record set stays empty.
C12_ConstructionOrder ==
    /\ reads <= 1
    /\ reads = 1 => (pc \in {"lines", "ready", "failed"} /\ DownloadReturnedNil)
    /\ ret.err \in FetchErrors => (reads = 0 /\ records = {} /\ todo = <<>>)
    /\ records # {} => reads = 1
    /\ pc = "ready" => (reads = 1 /\ todo = <<>>)
    /\ calls > 0 => pc = "ready"

\* C12 witness: a fetched list was loaded once and the instance is in use
C12_Witness ==
    /\ pc = "ready"
    /\ fetches = 1
    /\ writes = 1
    /\ reads = 1
    /\ records # {}
    /\ calls > 0


\* the fetch succeeded and os.WriteFile returned nil
WriteSucceeded ==
    /\ net.st = "body"
    /\ writes = 1
    /\ pc # "write"
    /\ ret.err # "write"

\* what the payload filter makes of the fetched body
Persisted ==
    IF fnDataFiler = "nil" THEN net.body ELSE CallerDataFilterFunc(net.body)

\* the records the per-line processor yields for the content data
RecordsOf(data) ==
    LET lines == Split(data)
        kept == {i \in 1..Len(lines) : FnDataLine(fnDataLine, lines[i]).include}
    IN  {TrimSpace(FnDataLine(fnDataLine, lines[i]).parsed) : i \in kept}

\* C13: after a successful fetch the cache file holds payloadFilter(body)
\* when a payload filter is configured and the body itself when none is, and
\* the record set is loaded from that content.
C13_FilterBeforePersist ==
    WriteSucceeded =>
        /\ file.data = Persisted
        /\ Loaded => records = RecordsOf(Persisted)

\* C13 witness: the body "A\nb" went through the filter, the file holds
\* "a\nb" and the records are "a" and "b"
C13_Witness ==
    /\ Loaded
    /\ WriteSucceeded
    /\ fnDataFiler = "custom"
    /\ fnDataLine = "default"
    /\ net.body = <<65, 10, 98>>
    /\ file.data = <<97, 10, 98>>
    /\ records = {<<97>>, <<98>>}


\* C14: one call of New issues at most one GET and at most one write of the
\* cache file; after a failed GET, status check, body read or file write
\* download() has returned the error, with no further GET or write.
C14_NoRetry ==
    /\ fetches <= 1
    /\ writes <= 1
    /\ net.st = "connerr" => (pc = "failed" /\ ret.err = "get")
    /\ (net.st = "answered" /\ net.status # StatusOK /\ pc # "status")
           => (pc = "failed" /\ ret.err = "status")
    /\ net.st = "readerr" => (pc = "failed" /\ ret.err = "read")
    /\ ret.err = "write" => writes = 1
    /\ ret.err \in FetchErrors => (pc = "failed" /\ fetches = 1 /\ reads = 0)

\* C14 witness: the write of the fetched body failed and New has returned
C14_Witness ==
    /\ pc = "failed"
    /\ ret.err = "write"
    /\ fetches = 1
    /\ writes = 1


\* the string has no white space at either end
NoOuterSpace(s) ==
    s = <<>> \/ (~IsSpace(s[1]) /\ ~IsSpace(s[Len(s)]))

\* C15: every record equals its own trimmed form: no record has leading or
\* trailing white space, whatever was loaded and whatever was added.
C15_RecordsTrimmed ==
    \A rec \in records : rec = TrimSpace(rec) /\ NoOuterSpace(rec)

\* C15 witness: the line " a<TAB>" was fetched and loaded and Add(" a") has
\* stored; the record is "a"
C15_Witness ==
    /\ pc = "ready"
    /\ file.data = <<35, 10, 32, 97, 9>>
    /\ <<32, 97>> \in added
    /\ records = {<<97>>}

\* caller t takes the step that stores its value in the map
AddStores(t) ==
    tpc[t] = "body" /\ top[t] = "Add" /\ tpc'[t] = "unlock"

\* C17: on a Ready instance with the default strategies Has, Search and List
\* leave the record set as it is and Add only adds: the record set changes
\* only in the storing step of an Add, and then it grows; a record that
\* List() holds, and a term for which Has is true, stay so.
C17_RecordsOnlyGrow ==
    [][pc = "ready" =>
          /\ records \subseteq records'
          /\ records' # records => \E t \in Callers : AddStores(t)
          /\ \A i \in 1..Len(List(records)) :
                 \E j \in 1..Len(List(records')) : List(records')[j] = List(records)[i]
          /\ \A v \in Values :
                 DefaultHasFunc(records, v) => DefaultHasFunc(records', v)]_vars

\* C17 witness: a List() running beside other callers returns a record an
\* earlier Add stored next to a record loaded from the file
C17_Witness ==
    \E t \in Callers :
        /\ tpc[t] = "unlock"
        /\ top[t] = "List"
        /\ fnHas = "default"
        /\ fnSearch = "default"
        /\ <<304>> \in added
        /\ \E i, j \in 1..Len(tret[t].list) : tret[t].list[i] = <<304>> /\ tret[t].list[j] = <<98>>


\* C18: once Add(v) has returned, Has(v) with the default strategy returns
\* true, for every v, also one with white space around it.
C18_AddThenHas ==
    \A t \in Callers :
        (tpc[t] = "unlock" /\ top[t] = "Has" /\ fnHas = "default" /\ targ[t] \in added)
            => tret[t].has = TRUE

\* the records New loaded from the cache file
Loaded0 == InitLoop(fnDataLine, {}, Split(file.data))

\* the arguments of the Add calls issued so far, returned or not
Issued == added \cup {targ[t] : t \in {u \in Callers : top[u] = "Add"}}

\* C19: with R the records New loaded, the record set is R united with the
\* trimmed values of the Add calls that have stored, whatever the order in
\* which the callers took the mutex; once every call has returned that is R
\* united with the trimmed values of all the calls, and a List() running
\* beside them returns, sorted and without repetition, R and the trimmed
\* values of some of those calls.
C19_NoLostUpdate ==
    /\ records = Loaded0 \cup {TrimSpace(v) : v \in added}
    /\ (\A t \in Callers : tpc[t] = "idle") => Issued = added
    /\ \A t \in Callers :
          (tpc[t] = "unlock" /\ top[t] = "List") =>
              /\ \E S \in SUBSET Issued :
                    {tret[t].list[i] : i \in 1..Len(tret[t].list)} = Loaded0 \cup {TrimSpace(v) : v \in S}
              /\ Len(tret[t].list) = Cardinality({tret[t].list[i] : i \in 1..Len(tret[t].list)})

\* C19 witness: two callers have added different values and both have
\* returned; both values are records
C19_Witness ==
    /\ \A t \in Callers : tpc[t] = "idle"
    /\ added = {<<>>, <<304>>}
    /\ <<>> \in records
    /\ <<304>> \in records
    /\ Loaded0 # {}


\* a caller waits for the mutex
Waiting(t) == tpc[t] = "lock"

\* C16: no caller asks for the mutex while holding it, and init, which calls
\* Add for each line, runs with the mutex free; a method holds the mutex
\* from Lock to its return and gives it back when it returns, so the mutex
\* is free whenever no method holds it; under fair scheduling the loop of
\* init ends and every call of Has, Search, Add and List returns.
C16_LockDiscipline ==
    /\ [](\A t \in Callers : Waiting(t) => mu # t)
    /\ [](pc # "ready" => mu = 0)
    /\ [](\A t \in Callers : InCritical(t) <=> mu = t)
    /\ []((\A t \in Callers : ~InCritical(t)) => mu = 0)
    /\ [][\A t \in Callers : (tpc[t] = "unlock" /\ tpc'[t] = "idle") => mu' = 0]_tpc
    /\ pc = "lines" ~> pc = "ready"
    /\ \A t \in Callers : Waiting(t) ~> tpc[t] = "idle"

\* C16 witness: after a construction that went through init, one caller
\* waits for the mutex while another is about to release it
C16_Witness ==
    /\ pc = "ready"
    /\ reads = 1
    /\ records # {}
    /\ Waiting(1)
    /\ mu = 2
    /\ tpc[2] = "unlock"
    /\ top[2] = "Add"

====
